---- MODULE Spec2Model ----
(***************************************************************************)
(* Menu-driven linked data structure programs of "dsa code":               *)
(*   linked_stack_menu.c  (stack),   linked_queue_menu.c (queue),          *)
(*   menu_linked.c (singly linked list), menu_DLL.c (doubly linked list),  *)
(*   csll.c (circular singly linked), CDLL.c (circular doubly linked).     *)
(* Each program owns one structure; one action models one menu choice of   *)
(* its main loop, the handler together with the traversal main prints      *)
(* after it.  The heap is a finite set of node addresses; info, link,      *)
(* next and prev are the nodes' fields; alloc is the set of nodes that     *)
(* were malloc'ed and not yet freed.  A freed node's fields are cleared    *)
(* once the handler that freed it has returned.                            *)
(***************************************************************************)
EXTENDS Integers, Sequences, FiniteSets, TLC

\* ------------------------------------------------------------------ bounds
MaxNodes == 3      \* addresses malloc can hand out; with all in use it returns NULL
MaxVal == 2        \* the items typed at the prompts are 1..MaxVal

NULL == 0
Nodes == 1..MaxNodes
Vals == 1..MaxVal
Ptr == Nodes \cup {NULL}
WILD == MaxNodes + 1    \* a non-null address that is no node: dereferencing it faults

VARIABLES
    prog,     \* which of the programs is running
    pc,       \* "create" | "menu" | "call" | "crashed" | "hung" | "exited"
    ub,       \* the run has read freed memory or depended on an uninitialised pointer
    info,     \* Node.info (Node.data of linked_insert.c and linked_delete.c)
    link,     \* Node.link (stack, queue, singly linked, circular singly linked)
    next,     \* Node.next (doubly linked, circular doubly linked, linked_insert.c, linked_delete.c)
    prev,     \* Node.prev (doubly linked, circular doubly linked)
    alloc,    \* nodes malloc'ed and not freed
    top,      \* main's top   (stack)
    front,    \* main's front (queue)
    rear,     \* main's rear  (queue)
    start,    \* main's start (the four list programs), main's head (linked_insert.c, linked_delete.c)
    op,       \* the menu choice served last
    item,     \* the item read last
    loc,      \* the location read last (insert_LOC), the index passed last (insertAtIndex, deleteAtIndex)
    out       \* the message the handler printed last

vars == <<prog, pc, ub, info, link, next, prev, alloc, top, front, rear, start,
          op, item, loc, out>>

heap == <<info, link, next, prev, alloc>>
refs == <<top, front, rear, start>>

\* ------------------------------------------------------------------ output
Msg(m, v) == [msg |-> m, val |-> v]
NoMsg == Msg("", 0)
OVERFLOW == Msg("OVERFLOW", 0)
UNDERFLOW == Msg("UNDERFLOW", 0)
Deleted(v) == Msg("deleted", v)

\* ------------------------------------------------------------------ heap
\* malloc: any address not in use, NULL when the heap is exhausted.
Malloc == IF alloc = Nodes THEN {NULL} ELSE Nodes \ alloc

\* The nodes visited by   while(ptr!=NULL){ ...; ptr=ptr->link; }   from p,
\* cut where the walk would revisit a node (the loop then never ends).
RECURSIVE WalkLin(_, _, _)
WalkLin(p, lnk, seen) ==
    IF p \notin Nodes \/ p \in seen THEN <<>>
    ELSE <<p>> \o WalkLin(lnk[p], lnk, seen \cup {p})

LinNodes(p, lnk) == WalkLin(p, lnk, {})

\* How the linear walk from p ends: at NULL, at a wild address, or never.
LinEnd(p, lnk) ==
    LET w == LinNodes(p, lnk)
        e == IF w = <<>> THEN p ELSE lnk[w[Len(w)]]
    IN  IF e = NULL THEN "null" ELSE IF e \in Nodes THEN "cycle" ELSE "wild"

\* The nodes visited by the circular traversal from s (s non-null):
\*   print s; ptr=s->link; while(ptr!=s){ print ptr; ptr=ptr->link; }
RECURSIVE WalkTo(_, _, _, _)
WalkTo(p, stop, lnk, seen) ==
    IF p = stop \/ p \notin Nodes \/ p \in seen THEN <<>>
    ELSE <<p>> \o WalkTo(lnk[p], stop, lnk, seen \cup {p})

RingNodes(s, lnk) == <<s>> \o WalkTo(lnk[s], s, lnk, {})

\* How the circular traversal from s ends: back at s, at NULL, or never.
RingEnd(s, lnk) ==
    LET w == RingNodes(s, lnk)
        e == lnk[w[Len(w)]]
    IN  IF e = s THEN "ring" ELSE IF e = NULL THEN "deref_null" ELSE "cycle"

Range(s) == {s[i] : i \in 1..Len(s)}

\* free(ptr): the field f of node n after the node is released.  The bytes of
\* a freed node are no longer the program's and hold no value it may rely on;
\* the model clears them.  The traversal a handler runs before it returns is
\* taken over the bytes as they were (see AfterTraversal).
Free(f, n) == [f EXCEPT ![n] = 0]
Infos(ns) == [i \in 1..Len(ns) |-> info[ns[i]]]

\* The run after a traversal that visited the nodes ns of the heap with the
\* live set al and ended as e: a walk that never ends hangs, a walk into
\* NULL->info or a wild address faults, a walk over freed nodes reads
\* whatever the bytes hold now (here: what they held at the free) or faults.
\* u: the handler itself already depended on an uninitialised pointer.
AfterTraversal(ns, e, al, u) ==
    /\ pc' \in IF e = "cycle" THEN {"hung"}
               ELSE IF e \in {"deref_null", "wild"} THEN {"crashed"}
               ELSE IF Range(ns) \subseteq al THEN {"menu"}
               ELSE {"menu", "crashed"}
    /\ ub' = (ub \/ u \/ ~(Range(ns) \subseteq al))

\* The menu of program p is waiting for a choice.  Once ub holds the language
\* places no requirement on the run: the model keeps the state the handler
\* left and takes no further step from it.
AtMenu(p) == prog = p /\ pc = "menu" /\ ~ub

\* A handler that faults before main's traversal: the process is gone.
Crash(choice) ==
    /\ pc' = "crashed"
    /\ op' = choice
    /\ out' = NoMsg
    /\ UNCHANGED <<prog, ub, heap, refs, item, loc>>

\* A handler whose loop never ends.
Hang(choice) ==
    /\ pc' = "hung"
    /\ op' = choice
    /\ out' = NoMsg
    /\ UNCHANGED <<prog, ub, heap, refs, item, loc>>

\* ------------------------------------------------------------------ Init
Progs == {"stack", "queue", "sll", "dll", "csll", "cdll", "insert", "delete"}

InitOf(p) ==
    /\ prog = p
    /\ pc = IF p \in {"stack", "queue"} THEN "menu" ELSE "create"
    /\ ub = FALSE
    /\ info = [n \in Nodes |-> 0]
    /\ link = [n \in Nodes |-> NULL]
    /\ next = [n \in Nodes |-> NULL]
    /\ prev = [n \in Nodes |-> NULL]
    /\ alloc = {}
    /\ top = NULL /\ front = NULL /\ rear = NULL /\ start = NULL
    /\ op = "" /\ item = 0 /\ loc = 0 /\ out = NoMsg

Init == \E p \in Progs : InitOf(p)

\* ================================================================== stack
\* peep(top): the items listed, top first.
peep(t) == Infos(LinNodes(t, link))

\* push without  new->link=top : the new node is not chained to the old top.
PushLinkLost(t) == NULL

\* push, lines 19-26: the link the new node gets.
PushLink(t) == IF t = NULL THEN NULL ELSE t

\* pop, line 38: top=ptr->link.
PopTop(t) == link[t]

push(v) ==
    /\ AtMenu("stack")
    /\ \E new \in Malloc :
        IF new = NULL
        THEN /\ out' = OVERFLOW
             /\ UNCHANGED <<info, link, alloc, top, item>>
        ELSE /\ item' = v
             /\ info' = [info EXCEPT ![new] = v]
             /\ link' = [link EXCEPT ![new] = PushLink(top)]
             /\ top' = new
             /\ alloc' = alloc \cup {new}
             /\ out' = NoMsg
    /\ op' = "push"
    /\ AfterTraversal(LinNodes(top', link'), LinEnd(top', link'), alloc', FALSE)
    /\ UNCHANGED <<prog, next, prev, front, rear, start, loc>>

pop ==
    /\ AtMenu("stack")
    /\ IF top = NULL
       THEN /\ out' = UNDERFLOW
            /\ UNCHANGED <<info, link, top, alloc>>
       ELSE /\ out' = Deleted(info[top])
            /\ top' = PopTop(top)
            /\ alloc' = alloc \ {top}
            /\ info' = Free(info, top) /\ link' = Free(link, top)
    /\ op' = "pop"
    /\ AfterTraversal(LinNodes(top', link), LinEnd(top', link), alloc', FALSE)
    /\ UNCHANGED <<prog, next, prev, front, rear, start, item, loc>>

StackPeep ==
    /\ AtMenu("stack")
    /\ op' = "peep"
    /\ out' = IF top = NULL THEN Msg("stack is empty", 0) ELSE NoMsg
    /\ AfterTraversal(LinNodes(top, link), LinEnd(top, link), alloc, FALSE)
    /\ UNCHANGED <<prog, heap, refs, item, loc>>

Exit ==
    /\ pc = "menu" /\ ~ub
    /\ pc' = "exited"
    /\ op' = "exit"
    /\ out' = NoMsg
    /\ UNCHANGED <<prog, ub, heap, refs, item, loc>>

NextStack ==
    \/ \E v \in Vals : push(v)
    \/ pop
    \/ StackPeep
    \/ Exit

SpecStack == InitOf("stack") /\ [][NextStack]_vars

\* ================================================================== queue
\* traverse(front): the items listed, front first.
QueueTraverse(f) == Infos(LinNodes(f, link))

\* enqueue without  (*rear)->link=new : the old rear is not chained to the new node.
EnqueueLinksLost(lnk, r, new) == [lnk EXCEPT ![new] = NULL]

\* enqueue, lines 18 and 23: the links after appending new behind r.
EnqueueLinks(lnk, r, new) == [lnk EXCEPT ![new] = NULL, ![r] = new]

\* dequeue of the last element that resets front only.
RearAfterLastKept(r) == r

\* dequeue, line 36: *front=*rear=NULL.
RearAfterLast(r) == NULL

enqueue(v) ==
    /\ AtMenu("queue")
    /\ \E new \in Malloc :
        IF new # NULL /\ front # NULL /\ rear = NULL
        THEN Crash("enqueue")                          \* (*rear)->link=new
        ELSE /\ IF new = NULL
                THEN /\ out' = OVERFLOW
                     /\ UNCHANGED <<info, link, alloc, front, rear, item>>
                ELSE /\ item' = v
                     /\ info' = [info EXCEPT ![new] = v]
                     /\ alloc' = alloc \cup {new}
                     /\ out' = NoMsg
                     /\ IF front = NULL /\ rear = NULL
                        THEN /\ front' = new
                             /\ rear' = new
                             /\ link' = [link EXCEPT ![new] = NULL]
                        ELSE /\ link' = EnqueueLinks(link, rear, new)
                             /\ rear' = new
                             /\ front' = front
             /\ op' = "enqueue"
             /\ AfterTraversal(LinNodes(front', link'), LinEnd(front', link'), alloc', FALSE)
             /\ UNCHANGED <<prog, next, prev, top, start, loc>>

\* dequeue that reports the empty queue with the wrong word.
DequeueEmptyMsgOverflow == OVERFLOW

\* dequeue, line 31: what is printed for the empty queue.
DequeueEmptyMsg == UNDERFLOW

dequeue ==
    /\ AtMenu("queue")
    /\ IF front = NULL /\ rear # NULL
       THEN Crash("dequeue")                           \* (*front)->link
       ELSE /\ IF front = NULL /\ rear = NULL
               THEN /\ out' = DequeueEmptyMsg
                    /\ UNCHANGED <<info, link, front, rear, alloc>>
               ELSE /\ out' = NoMsg
                    /\ IF front = rear
                       THEN /\ front' = NULL
                            /\ rear' = RearAfterLast(rear)
                            /\ UNCHANGED <<info, link, alloc>>    \* the node is not freed
                       ELSE /\ front' = link[front]
                            /\ rear' = rear
                            /\ alloc' = alloc \ {front}
                            /\ info' = Free(info, front) /\ link' = Free(link, front)
            /\ op' = "dequeue"
            /\ AfterTraversal(LinNodes(front', link), LinEnd(front', link), alloc', FALSE)
            /\ UNCHANGED <<prog, next, prev, top, start, item, loc>>

QueueTraversal ==
    /\ AtMenu("queue")
    /\ op' = "traverse"
    /\ out' = NoMsg
    /\ AfterTraversal(LinNodes(front, link), LinEnd(front, link), alloc, FALSE)
    /\ UNCHANGED <<prog, heap, refs, item, loc>>

NextQueue ==
    \/ \E v \in Vals : enqueue(v)
    \/ dequeue
    \/ QueueTraversal
    \/ Exit

SpecQueue == InitOf("queue") /\ [][NextQueue]_vars

\* The stack program or the queue program.
NextStackQueue ==
    \/ NextStack
    \/ NextQueue

SpecStackQueue == (InitOf("stack") \/ InitOf("queue")) /\ [][NextStackQueue]_vars

\* ================================================================== doubly linked list (menu_DLL.c)
MaxLoc == 3        \* the locations typed at insert_LOC's prompt are 1..MaxLoc
Locs == 1..MaxLoc

\* foreward_traversal(start): the items listed.  if(start=NULL) assigns, so
\* the "list is empty" branch is never taken and ptr walks from the old start.
foreward_traversal(s) == Infos(LinNodes(s, next))

DllAfter(s, nxt, al, u) == AfterTraversal(LinNodes(s, nxt), LinEnd(s, nxt), al, u)

create_dll(v) ==
    /\ prog = "dll" /\ pc = "create"
    /\ \E new \in Malloc :
        IF new = NULL
        THEN /\ out' = OVERFLOW
             /\ UNCHANGED <<info, next, prev, alloc, start, item>>
        ELSE /\ item' = v
             /\ info' = [info EXCEPT ![new] = v]
             /\ prev' = [prev EXCEPT ![new] = NULL]
             /\ next' = [next EXCEPT ![new] = NULL]
             /\ alloc' = alloc \cup {new}
             /\ start' = IF start = NULL THEN new ELSE start
             /\ out' = NoMsg
    /\ op' = "create"
    /\ pc' = "menu"
    /\ UNCHANGED <<prog, ub, link, top, front, rear, loc>>

\* insert_beg, lines 58-60, and insert_LOC, lines 120-122: new goes in front
\* of s.  The fields of new were reset before (lines 52-53, 104-105).
DllLinkFront(nxt, prv, s, new) ==
    [nx |-> [nxt EXCEPT ![new] = NULL, ![new] = s],
     pv |-> [prv EXCEPT ![new] = NULL, ![s] = new]]

DllInsertBeg(v) ==
    /\ AtMenu("dll")
    /\ \E new \in Malloc :
        IF new = NULL
        THEN /\ out' = OVERFLOW
             /\ UNCHANGED <<info, next, prev, alloc, start, item>>
        ELSE /\ item' = v
             /\ info' = [info EXCEPT ![new] = v]
             /\ alloc' = alloc \cup {new}
             /\ out' = NoMsg
             /\ start' = new
             /\ IF start = NULL
                THEN /\ next' = [next EXCEPT ![new] = NULL]
                     /\ prev' = [prev EXCEPT ![new] = NULL]
                ELSE LET r == DllLinkFront(next, prev, start, new)
                     IN  next' = r.nx /\ prev' = r.pv
    /\ op' = "insert_beg"
    /\ DllAfter(start', next', alloc', FALSE)
    /\ UNCHANGED <<prog, link, top, front, rear, loc>>

\* insert_end without line 85 (ptr->next=new): the last node keeps its NULL next.
DllLinkEndNoNext(nxt, prv, ptr, new) ==
    [nx |-> [nxt EXCEPT ![new] = NULL],
     pv |-> [prv EXCEPT ![new] = NULL, ![new] = ptr]]

\* insert_end, lines 82-88: new goes behind the last node ptr of the walk.
DllLinkEnd(nxt, prv, ptr, new) ==
    [nx |-> [nxt EXCEPT ![new] = NULL, ![ptr] = new],
     pv |-> [prv EXCEPT ![new] = NULL, ![new] = ptr]]

DllInsertEnd(v) ==
    /\ AtMenu("dll")
    /\ \E new \in Malloc :
        LET w == LinNodes(start, [next EXCEPT ![new] = NULL])   \* while(ptr->next!=NULL)
            ptr == w[Len(w)]
        IN  IF new # NULL /\ start # NULL /\ LinEnd(start, [next EXCEPT ![new] = NULL]) = "cycle"
            THEN Hang("insert_end")
            ELSE /\ IF new = NULL
                    THEN /\ out' = OVERFLOW
                         /\ UNCHANGED <<info, next, prev, alloc, start, item>>
                    ELSE /\ item' = v
                         /\ info' = [info EXCEPT ![new] = v]
                         /\ alloc' = alloc \cup {new}
                         /\ out' = NoMsg
                         /\ IF start = NULL
                            THEN /\ start' = new
                                 /\ next' = [next EXCEPT ![new] = NULL]
                                 /\ prev' = [prev EXCEPT ![new] = NULL]
                            ELSE LET r == DllLinkEnd(next, prev, ptr, new)
                                 IN  /\ next' = r.nx /\ prev' = r.pv
                                     /\ start' = start
                 /\ op' = "insert_end"
                 /\ DllAfter(start', next', alloc', FALSE)
                 /\ UNCHANGED <<prog, link, top, front, rear, loc>>

\* insert_LOC, lines 111-115:  while(i<loc && ptr!=NULL){ptr=ptr1; ptr=ptr->next; i++;}
\* ptr1 is never advanced.  The value of ptr when the loop is left.
RECURSIVE LocWalk(_, _, _, _, _)
LocWalk(ptr, ptr1, i, l, nxt) ==
    IF i < l /\ ptr # NULL THEN LocWalk(nxt[ptr1], ptr1, i + 1, l, nxt) ELSE ptr

\* insert_LOC, lines 125-128: new is spliced between ptr and ptr1.
DllSplice(nxt, prv, ptr, ptr1, new) ==
    [nx |-> [nxt EXCEPT ![ptr] = new, ![new] = ptr1],
     pv |-> [prv EXCEPT ![new] = ptr, ![ptr1] = new]]

\* insert_LOC, line 111: ptr is read uninitialised by the first test of the
\* loop when 1 < loc.  The loop only compares it with NULL before overwriting
\* it, so the values it can hold are NULL and some non-null address.
UninitPtr == {NULL, WILD}

DllInsertLoc(v, l) ==
    /\ AtMenu("dll")
    /\ \E new \in Malloc, p0 \in UninitPtr :
        IF new = NULL
        THEN /\ out' = OVERFLOW
             /\ UNCHANGED <<info, next, prev, alloc, start, item, loc>>
        ELSE /\ item' = v
             /\ loc' = l
             /\ info' = [info EXCEPT ![new] = v]
             /\ alloc' = alloc \cup {new}
             /\ IF start = NULL
                THEN /\ start' = new
                     /\ next' = [next EXCEPT ![new] = NULL]
                     /\ prev' = [prev EXCEPT ![new] = NULL]
                     /\ out' = NoMsg
                ELSE LET next1 == [next EXCEPT ![new] = NULL]
                         prev1 == [prev EXCEPT ![new] = NULL]
                         ptr1 == start
                         ptr == LocWalk(p0, ptr1, 1, l, next1)
                     IN  IF ptr1 = NULL
                         THEN /\ out' = Msg("location not found", 0)
                              /\ next' = next1 /\ prev' = prev1
                              /\ start' = start
                         ELSE IF ptr1 = start
                         THEN LET r == DllLinkFront(next, prev, start, new)
                              IN  /\ next' = r.nx /\ prev' = r.pv
                                  /\ start' = new
                                  /\ out' = NoMsg
                         ELSE LET r == DllSplice(next1, prev1, ptr, ptr1, new)
                              IN  /\ next' = r.nx /\ prev' = r.pv
                                  /\ start' = start
                                  /\ out' = NoMsg
    /\ op' = "insert_LOC"
    /\ DllAfter(start', next', alloc', FALSE)
    /\ UNCHANGED <<prog, link, top, front, rear>>

DllDeleteBeg ==
    /\ AtMenu("dll")
    /\ IF start # NULL /\ next[start] = NULL
       THEN Crash("delete_beg")         \* start=start->next; start->prev=NULL
       ELSE /\ IF start = NULL
               THEN /\ out' = UNDERFLOW
                    /\ UNCHANGED <<info, next, prev, alloc, start>>
               ELSE /\ out' = Deleted(info[start])
                    /\ start' = next[start]
                    /\ prev' = Free([prev EXCEPT ![next[start]] = NULL], start)
                    /\ alloc' = alloc \ {start}
                    /\ info' = Free(info, start) /\ next' = Free(next, start)
            /\ op' = "delete_beg"
            /\ DllAfter(start', next, alloc', FALSE)
            /\ UNCHANGED <<prog, link, top, front, rear, item, loc>>

\* delete_end: prev is assigned only inside the loop.  On a one-node list the
\* loop body never runs and prev->next=NULL goes through the value p0 that prev
\* happens to hold; start still refers to the node freed.
DllDeleteEnd ==
    /\ AtMenu("dll")
    /\ \E p0 \in Ptr \cup {WILD} :
        LET w == LinNodes(start, next)                 \* while(ptr->next!=NULL)
            ptr == w[Len(w)]
            pv == IF Len(w) >= 2 THEN w[Len(w) - 1] ELSE p0
        IN  IF start # NULL /\ pv \notin Nodes
            THEN Crash("delete_end")                   \* prev->next=NULL
            ELSE IF start # NULL /\ LinEnd(start, next) = "cycle"
            THEN Hang("delete_end")
            ELSE /\ IF start = NULL
                    THEN /\ out' = UNDERFLOW
                         /\ DllAfter(start, next, alloc, FALSE)
                         /\ UNCHANGED <<info, next, prev, alloc>>
                    ELSE LET nx == [next EXCEPT ![pv] = NULL]
                         IN  /\ out' = Deleted(info[ptr])
                             /\ alloc' = alloc \ {ptr}
                             /\ DllAfter(start, nx, alloc', Len(w) < 2)
                             /\ next' = Free(nx, ptr)
                             /\ info' = Free(info, ptr) /\ prev' = Free(prev, ptr)
                 /\ op' = "delete_end"
                 /\ UNCHANGED <<prog, link, refs, item, loc>>

\* main case 1:  start=foreward_traversal(start);  the function has no return
\* statement, so start becomes whatever the return register holds.
DllTraversal ==
    /\ AtMenu("dll")
    /\ \E r \in Ptr \cup {WILD} :
        /\ start' = r
        /\ op' = "traversal"
        /\ out' = NoMsg
        /\ DllAfter(start, next, alloc, TRUE)
        /\ UNCHANGED <<prog, heap, top, front, rear, item, loc>>

NextDLL ==
    \/ \E v \in Vals : create_dll(v)
    \/ \E v \in Vals : DllInsertBeg(v)
    \/ \E v \in Vals : DllInsertEnd(v)
    \/ \E v \in Vals, l \in Locs : DllInsertLoc(v, l)
    \/ DllDeleteBeg
    \/ DllDeleteEnd
    \/ DllTraversal
    \/ Exit

SpecDLL == InitOf("dll") /\ [][NextDLL]_vars

\* ================================================================== singly linked list (menu_linked.c)
\* traversal(start): the items listed.
traversal(s) == Infos(LinNodes(s, link))

SllAfter(s, lnk, al, u) == AfterTraversal(LinNodes(s, lnk), LinEnd(s, lnk), al, u)

create_sll(v) ==
    /\ prog = "sll" /\ pc = "create"
    /\ \E new \in Malloc :
        IF new = NULL
        THEN /\ out' = OVERFLOW
             /\ UNCHANGED <<info, link, alloc, start, item>>
        ELSE /\ item' = v
             /\ info' = [info EXCEPT ![new] = v]
             /\ link' = [link EXCEPT ![new] = NULL]
             /\ alloc' = alloc \cup {new}
             /\ start' = IF start = NULL THEN new ELSE start
             /\ out' = NoMsg
    /\ op' = "create"
    /\ pc' = "menu"
    /\ UNCHANGED <<prog, ub, next, prev, top, front, rear, loc>>

SllInsertBeg(v) ==
    /\ AtMenu("sll")
    /\ \E new \in Malloc :
        IF new = NULL
        THEN /\ out' = OVERFLOW
             /\ UNCHANGED <<info, link, alloc, start, item>>
        ELSE /\ item' = v
             /\ info' = [info EXCEPT ![new] = v]
             /\ link' = [link EXCEPT ![new] = IF start = NULL THEN NULL ELSE start]
             /\ alloc' = alloc \cup {new}
             /\ start' = new
             /\ out' = NoMsg
    /\ op' = "insert_beg"
    /\ SllAfter(start', link', alloc', FALSE)
    /\ UNCHANGED <<prog, next, prev, top, front, rear, loc>>

SllInsertEnd(v) ==
    /\ AtMenu("sll")
    /\ \E new \in Malloc :
        LET link1 == [link EXCEPT ![new] = NULL]       \* new->link=NULL
            w == LinNodes(start, link1)                \* while(ptr->link!=NULL)
            ptr == w[Len(w)]
        IN  IF new # NULL /\ start # NULL /\ LinEnd(start, link1) = "cycle"
            THEN Hang("insert_end")
            ELSE /\ IF new = NULL
                    THEN /\ out' = OVERFLOW
                         /\ UNCHANGED <<info, link, alloc, start, item>>
                    ELSE /\ item' = v
                         /\ info' = [info EXCEPT ![new] = v]
                         /\ alloc' = alloc \cup {new}
                         /\ out' = NoMsg
                         /\ IF start = NULL
                            THEN /\ start' = new
                                 /\ link' = link1
                            ELSE /\ start' = start
                                 /\ link' = [link1 EXCEPT ![ptr] = new]
                 /\ op' = "insert_end"
                 /\ SllAfter(start', link', alloc', FALSE)
                 /\ UNCHANGED <<prog, next, prev, top, front, rear, loc>>

SllDeleteBeg ==
    /\ AtMenu("sll")
    /\ IF start = NULL
       THEN /\ out' = UNDERFLOW
            /\ UNCHANGED <<info, link, alloc, start>>
       ELSE /\ out' = Deleted(info[start])
            /\ start' = link[start]
            /\ alloc' = alloc \ {start}
            /\ info' = Free(info, start) /\ link' = Free(link, start)
    /\ op' = "delete_beg"
    /\ SllAfter(start', link, alloc', FALSE)
    /\ UNCHANGED <<prog, next, prev, top, front, rear, item, loc>>

\* delete_end: ptr and prev both begin at start; on a one-node list the loop
\* body never runs, the node is freed and start is returned as it was.
SllDeleteEnd ==
    /\ AtMenu("sll")
    /\ LET w == LinNodes(start, link)                  \* while(ptr->link!=NULL)
           ptr == w[Len(w)]
           pv == IF Len(w) >= 2 THEN w[Len(w) - 1] ELSE start
       IN  IF start # NULL /\ LinEnd(start, link) = "cycle"
           THEN Hang("delete_end")
           ELSE /\ IF start = NULL
                   THEN /\ out' = UNDERFLOW
                        /\ SllAfter(start, link, alloc, FALSE)
                        /\ UNCHANGED <<info, link, alloc>>
                   ELSE LET lk == [link EXCEPT ![pv] = NULL]
                        IN  /\ out' = Deleted(info[ptr])
                            /\ alloc' = alloc \ {ptr}
                            /\ SllAfter(start, lk, alloc', FALSE)
                            /\ link' = Free(lk, ptr)
                            /\ info' = Free(info, ptr)
                /\ op' = "delete_end"
                /\ UNCHANGED <<prog, next, prev, refs, item, loc>>

SllTraversal ==
    /\ AtMenu("sll")
    /\ op' = "traversal"
    /\ out' = NoMsg
    /\ SllAfter(start, link, alloc, FALSE)
    /\ UNCHANGED <<prog, heap, refs, item, loc>>

\* searching_sll, lines 117-120:  loc=1; while(ptr!=NULL && ptr->info!=item)
\* { ptr=ptr->link; loc++; }   ptr and loc when the loop is left.
SearchNextLocStuck(l) == l

\* searching_sll, line 120: loc++.
SearchNextLoc(l) == l + 1

RECURSIVE SearchWalk(_, _, _, _)
SearchWalk(ptr, v, l, lnk) ==
    IF ptr # NULL /\ info[ptr] # v
    THEN SearchWalk(lnk[ptr], v, SearchNextLoc(l), lnk)
    ELSE [ptr |-> ptr, loc |-> l]

Found(l) == Msg("found at", l)
Unsuccessful == Msg("Unsuccsful Search.", 0)

\* main case 6: searching_sll(start, item); no traversal follows.
searching_sll(v) ==
    /\ AtMenu("sll")
    /\ IF LinEnd(start, link) = "cycle" /\ v \notin Range(traversal(start))
       THEN Hang("searching")
       ELSE LET w == SearchWalk(start, v, 1, link)
            IN  /\ out' = IF w.ptr = NULL THEN Unsuccessful ELSE Found(w.loc)
                /\ op' = "searching"
                /\ item' = v
                /\ pc' = "menu"
                /\ UNCHANGED <<prog, ub, heap, refs, loc>>

\* sorting_sll, lines 133-142: the inner loop; ptr1's info is exchanged with
\* that of every later node ptr2 holding less.
RECURSIVE SortInner(_, _, _, _)
SortInner(inf, ptr1, ptr2, lnk) ==
    IF ptr2 = NULL THEN inf
    ELSE SortInner(IF inf[ptr1] > inf[ptr2]
                   THEN [inf EXCEPT ![ptr1] = inf[ptr2], ![ptr2] = inf[ptr1]]
                   ELSE inf,
                   ptr1, lnk[ptr2], lnk)

\* sorting_sll, lines 130-144: the outer loop, while(ptr1->link!=NULL).
RECURSIVE SortOuter(_, _, _)
SortOuter(inf, ptr1, lnk) ==
    IF lnk[ptr1] = NULL THEN inf
    ELSE SortOuter(SortInner(inf, ptr1, lnk[ptr1], lnk), lnk[ptr1], lnk)

\* main case 7: traversal, sorting_sll(start), traversal.  sorting_sll reads
\* ptr1->link with ptr1 = start untested.
sorting_sll ==
    /\ AtMenu("sll")
    /\ IF start = NULL
       THEN Crash("sorting")                           \* ptr1->link
       ELSE IF LinEnd(start, link) = "cycle"
       THEN Hang("sorting")
       ELSE /\ info' = SortOuter(info, start, link)
            /\ op' = "sorting"
            /\ out' = NoMsg
            /\ SllAfter(start, link, alloc, FALSE)
            /\ UNCHANGED <<prog, link, next, prev, alloc, refs, item, loc>>

\* reversal that forgets  ptr->link=prev.
ReversalStepLost(lnk, ptr, pv) == lnk

\* reversal, line 152: ptr->link=prev.
ReversalStep(lnk, ptr, pv) == [lnk EXCEPT ![ptr] = pv]

\* reversal, lines 149-156: the loop; the start returned and the links.
RECURSIVE ReversalLoop(_, _, _, _)
ReversalLoop(ptr, pv, lnk, seen) ==
    IF ptr = NULL \/ ptr \in seen THEN [start |-> pv, link |-> lnk]
    ELSE ReversalLoop(lnk[ptr], ptr, ReversalStep(lnk, ptr, pv), seen \cup {ptr})

\* reversal(start) on the heap with the links lnk.
reversal(s, lnk) == ReversalLoop(s, NULL, lnk, {})

\* main case 8: traversal, start=reversal(start), traversal.
SllReversal ==
    /\ AtMenu("sll")
    /\ IF LinEnd(start, link) = "cycle"
       THEN Hang("reversal")
       ELSE LET r == reversal(start, link)
            IN  /\ start' = r.start
                /\ link' = r.link
                /\ op' = "reversal"
                /\ out' = NoMsg
                /\ SllAfter(start', link', alloc, FALSE)
                /\ UNCHANGED <<prog, info, next, prev, alloc, top, front, rear, item, loc>>

NextSLL ==
    \/ \E v \in Vals : create_sll(v)
    \/ \E v \in Vals : SllInsertBeg(v)
    \/ \E v \in Vals : SllInsertEnd(v)
    \/ SllDeleteBeg
    \/ SllDeleteEnd
    \/ SllTraversal
    \/ \E v \in Vals : searching_sll(v)
    \/ sorting_sll
    \/ SllReversal
    \/ Exit

SpecSLL == InitOf("sll") /\ [][NextSLL]_vars

\* ================================================================== circular singly linked list (csll.c)
\* traverse(start): the items listed (start non-null).
CsllTraverse(s) == IF s = NULL THEN <<>> ELSE Infos(RingNodes(s, link))

\* main's traverse(start) after a handler: "Empty CSLL." for NULL.
RingAfter(s, lnk, al, u) ==
    IF s = NULL
    THEN pc' = "menu" /\ ub' = (ub \/ u)
    ELSE AfterTraversal(RingNodes(s, lnk), RingEnd(s, lnk), al, u)

\* create_csll links the first node to the start it was given: main passes NULL.
create_csll(v) ==
    /\ prog = "csll" /\ pc = "create"
    /\ \E new \in Malloc :
        IF new = NULL
        THEN /\ out' = OVERFLOW
             /\ UNCHANGED <<info, link, alloc, start>>
        ELSE /\ info' = [info EXCEPT ![new] = v]
             /\ link' = [link EXCEPT ![new] = start]
             /\ alloc' = alloc \cup {new}
             /\ start' = new
             /\ out' = NoMsg
    /\ item' = v
    /\ op' = "create"
    /\ pc' = "menu"
    /\ UNCHANGED <<prog, ub, next, prev, top, front, rear, loc>>

\* insert_beg, lines 41-45:
\*   for(ptr=start; ptr->link!=start; ptr=ptr->link){ptr->link=new; new->link=start; start=new;}
\* The start and the links when the loop is left ("done"), or how it fails.
RECURSIVE BegLoop(_, _, _, _, _)
BegLoop(ptr, s, lnk, new, seen) ==
    IF ptr \notin Nodes THEN [end |-> "crash", s |-> s, lnk |-> lnk]
    ELSE IF lnk[ptr] = s THEN [end |-> "done", s |-> s, lnk |-> lnk]
    ELSE IF <<ptr, s, lnk>> \in seen THEN [end |-> "hang", s |-> s, lnk |-> lnk]
    ELSE LET lnk1 == [lnk EXCEPT ![ptr] = new, ![new] = s]
         IN  BegLoop(lnk1[ptr], new, lnk1, new, seen \cup {<<ptr, s, lnk>>})

CsllInsertBeg(v) ==
    /\ AtMenu("csll")
    /\ \E new \in Malloc :
        LET link1 == [link EXCEPT ![new] = NULL]       \* new->link=NULL
            r == BegLoop(start, start, link1, new, {})
        IN  IF new # NULL /\ start # NULL /\ r.end = "crash"
            THEN Crash("insert_beg")
            ELSE IF new # NULL /\ start # NULL /\ r.end = "hang"
            THEN Hang("insert_beg")
            ELSE /\ IF new = NULL
                    THEN /\ out' = OVERFLOW
                         /\ UNCHANGED <<info, link, alloc, start, item>>
                    ELSE /\ item' = v
                         /\ info' = [info EXCEPT ![new] = v]
                         /\ alloc' = alloc \cup {new}
                         /\ out' = NoMsg
                         /\ IF start = NULL
                            THEN /\ start' = new
                                 /\ link' = [link1 EXCEPT ![new] = new]
                            ELSE /\ start' = r.s
                                 /\ link' = r.lnk
                 /\ op' = "insert_beg"
                 /\ RingAfter(start', link', alloc', FALSE)
                 /\ UNCHANGED <<prog, next, prev, top, front, rear, loc>>

\* insert_end, lines 69-71:  while(ptr->link!=start){ptr=ptr->link;}  from the
\* value p that the uninitialised ptr happens to hold.
RECURSIVE EndWalk(_, _, _, _)
EndWalk(p, s, lnk, seen) ==
    IF p \notin Nodes THEN [end |-> "crash", at |-> NULL]
    ELSE IF lnk[p] = s THEN [end |-> "done", at |-> p]
    ELSE IF p \in seen THEN [end |-> "hang", at |-> NULL]
    ELSE EndWalk(lnk[p], s, lnk, seen \cup {p})

CsllInsertEnd(v) ==
    /\ AtMenu("csll")
    /\ \E new \in Malloc, p0 \in Ptr \cup {WILD} :
        LET link1 == [link EXCEPT ![new] = NULL]       \* new->link=NULL
            r == EndWalk(p0, start, link1, {})
        IN  IF new # NULL /\ start # NULL /\ r.end = "crash"
            THEN Crash("insert_end")
            ELSE IF new # NULL /\ start # NULL /\ r.end = "hang"
            THEN Hang("insert_end")
            ELSE /\ IF new = NULL
                    THEN /\ out' = OVERFLOW
                         /\ UNCHANGED <<info, link, alloc, start, item>>
                    ELSE /\ item' = v
                         /\ info' = [info EXCEPT ![new] = v]
                         /\ alloc' = alloc \cup {new}
                         /\ out' = NoMsg
                         /\ IF start = NULL
                            THEN /\ start' = new
                                 /\ link' = [link1 EXCEPT ![new] = new]
                            ELSE /\ start' = start
                                 /\ link' = [link1 EXCEPT ![r.at] = new, ![new] = start]
                 /\ op' = "insert_end"
                 /\ RingAfter(start', link', alloc', new # NULL /\ start # NULL)
                 /\ UNCHANGED <<prog, next, prev, top, front, rear, loc>>

\* delete_beg walks to a node whose link is NULL, never frees and never moves start.
CsllDeleteBeg ==
    /\ AtMenu("csll")
    /\ LET w == LinNodes(start, link)                  \* while(ptr->link!=NULL)
           ptr == w[Len(w)]
       IN  IF start # NULL /\ LinEnd(start, link) = "cycle"
           THEN Hang("delete_beg")
           ELSE /\ IF start = NULL
                   THEN /\ out' = UNDERFLOW
                        /\ link' = link
                   ELSE /\ out' = Deleted(info[start])
                        /\ link' = [link EXCEPT ![ptr] = link[start]]
                /\ op' = "delete_beg"
                /\ RingAfter(start, link', alloc, FALSE)
                /\ UNCHANGED <<prog, info, next, prev, alloc, refs, item, loc>>

\* delete_end: prev is assigned only inside the loop; on a one-node ring
\* prev->link=start goes through the value p0 that prev happens to hold.
CsllDeleteEnd ==
    /\ AtMenu("csll")
    /\ \E p0 \in Ptr \cup {WILD} :
        LET w == RingNodes(start, link)                \* while(ptr->link!=start)
            ptr == w[Len(w)]
            pv == IF Len(w) >= 2 THEN w[Len(w) - 1] ELSE p0
        IN  IF start # NULL /\ (RingEnd(start, link) = "deref_null" \/ pv \notin Nodes)
            THEN Crash("delete_end")
            ELSE IF start # NULL /\ RingEnd(start, link) = "cycle"
            THEN Hang("delete_end")
            ELSE /\ IF start = NULL
                    THEN /\ out' = UNDERFLOW
                         /\ RingAfter(start, link, alloc, FALSE)
                         /\ UNCHANGED <<info, link, alloc>>
                    ELSE LET lk == [link EXCEPT ![pv] = start]
                         IN  /\ out' = Deleted(info[ptr])
                             /\ alloc' = alloc \ {ptr}
                             /\ RingAfter(start, lk, alloc', Len(w) < 2)
                             /\ link' = Free(lk, ptr)
                             /\ info' = Free(info, ptr)
                 /\ op' = "delete_end"
                 /\ UNCHANGED <<prog, next, prev, refs, item, loc>>

CsllTraversal ==
    /\ AtMenu("csll")
    /\ op' = "traverse"
    /\ out' = IF start = NULL THEN Msg("Empty CSLL.", 0) ELSE NoMsg
    /\ RingAfter(start, link, alloc, FALSE)
    /\ UNCHANGED <<prog, heap, refs, item, loc>>

NextCSLL ==
    \/ \E v \in Vals : create_csll(v)
    \/ \E v \in Vals : CsllInsertBeg(v)
    \/ \E v \in Vals : CsllInsertEnd(v)
    \/ CsllDeleteBeg
    \/ CsllDeleteEnd
    \/ CsllTraversal
    \/ Exit

SpecCSLL == InitOf("csll") /\ [][NextCSLL]_vars

\* ================================================================== circular doubly linked list (CDLL.c)
\* traverse(start): the items listed.
CdllTraverse(s) == IF s = NULL THEN <<>> ELSE Infos(RingNodes(s, next))

create_cdll(v) ==
    /\ prog = "cdll" /\ pc = "create"
    /\ \E new \in Malloc :
        IF new = NULL
        THEN /\ out' = OVERFLOW
             /\ UNCHANGED <<info, next, prev, alloc, start, item>>
        ELSE /\ item' = v
             /\ info' = [info EXCEPT ![new] = v]
             /\ start' = new
             /\ prev' = [prev EXCEPT ![new] = new]
             /\ next' = [next EXCEPT ![new] = new]
             /\ alloc' = alloc \cup {new}
             /\ out' = NoMsg
    /\ op' = "create"
    /\ pc' = "menu"
    /\ UNCHANGED <<prog, ub, link, top, front, rear, loc>>

\* insert_beg, lines 58-62, and insert_end, lines 85-89: new goes between
\* ptr = start->prev and start.
CdllLink(nxt, prv, s, new) ==
    LET ptr == prv[s]
    IN  [nx |-> [nxt EXCEPT ![new] = NULL, ![ptr] = new, ![new] = s],
         pv |-> [prv EXCEPT ![new] = NULL, ![new] = ptr, ![s] = new]]

\* insert_beg, line 63: start=new.
CdllBegStart(s, new) == new

\* insert_end: start is returned as it was.
CdllEndStart(s, new) == s

CdllInsert(choice, v, move) ==
    /\ AtMenu("cdll")
    /\ \E new \in Malloc :
        IF new # NULL /\ start # NULL /\ prev[start] \notin Nodes
        THEN Crash(choice)                             \* ptr->next=new
        ELSE /\ IF new = NULL
                THEN /\ out' = OVERFLOW
                     /\ UNCHANGED <<info, next, prev, alloc, start, item>>
                ELSE /\ item' = v
                     /\ info' = [info EXCEPT ![new] = v]
                     /\ alloc' = alloc \cup {new}
                     /\ out' = NoMsg
                     /\ IF start = NULL
                        THEN /\ start' = new
                             /\ next' = [next EXCEPT ![new] = NULL]
                             /\ prev' = [prev EXCEPT ![new] = NULL]
                        ELSE LET r == CdllLink(next, prev, start, new)
                             IN  /\ next' = r.nx /\ prev' = r.pv
                                 /\ start' = IF move THEN CdllBegStart(start, new)
                                             ELSE CdllEndStart(start, new)
             /\ op' = choice
             /\ RingAfter(start', next', alloc', FALSE)
             /\ UNCHANGED <<prog, link, top, front, rear, loc>>

CdllInsertBeg(v) == CdllInsert("insert_beg", v, TRUE)

CdllInsertEnd(v) == CdllInsert("insert_end", v, FALSE)

\* delete_beg, lines 102-104, with ptr = start.
CdllUnlinkBeg(nxt, prv, ptr) ==
    LET nx == [nxt EXCEPT ![prv[ptr]] = nxt[ptr]]      \* ptr->prev->next=ptr->next
    IN  [nx |-> nx,
         pv |-> [prv EXCEPT ![nx[ptr]] = prv[ptr]]]    \* ptr->next->prev=ptr->prev

CdllDeleteBeg ==
    /\ AtMenu("cdll")
    /\ IF start # NULL /\ (prev[start] \notin Nodes \/ next[start] \notin Nodes)
       THEN Crash("delete_beg")
       ELSE /\ IF start = NULL
               THEN /\ out' = UNDERFLOW
                    /\ RingAfter(start, next, alloc, FALSE)
                    /\ UNCHANGED <<info, next, prev, alloc, start>>
               ELSE LET r == CdllUnlinkBeg(next, prev, start)
                    IN  /\ out' = Deleted(info[start])
                        /\ start' = next[start]
                        /\ alloc' = alloc \ {start}
                        /\ RingAfter(start', r.nx, alloc', FALSE)
                        /\ next' = Free(r.nx, start) /\ prev' = Free(r.pv, start)
                        /\ info' = Free(info, start)
            /\ op' = "delete_beg"
            /\ UNCHANGED <<prog, link, top, front, rear, item, loc>>

\* delete_end that forgets  start->prev=ptr->prev.
CdllUnlinkEndNoPrev(nxt, prv, s) ==
    [nx |-> [nxt EXCEPT ![prv[prv[s]]] = s], pv |-> prv]

\* delete_end, lines 116-119, with ptr = start->prev.
CdllUnlinkEnd(nxt, prv, s) ==
    LET ptr == prv[s]
    IN  [nx |-> [nxt EXCEPT ![prv[ptr]] = s],          \* ptr->prev->next=start
         pv |-> [prv EXCEPT ![s] = prv[ptr]]]          \* start->prev=ptr->prev

CdllDeleteEnd ==
    /\ AtMenu("cdll")
    /\ IF start # NULL /\ (prev[start] \notin Nodes \/ prev[prev[start]] \notin Nodes)
       THEN Crash("delete_end")
       ELSE /\ IF start = NULL
               THEN /\ out' = OVERFLOW                 \* sic, line 113
                    /\ RingAfter(start, next, alloc, FALSE)
                    /\ UNCHANGED <<info, next, prev, alloc>>
               ELSE LET r == CdllUnlinkEnd(next, prev, start)
                    IN  /\ out' = Deleted(info[prev[start]])
                        /\ alloc' = alloc \ {prev[start]}
                        /\ RingAfter(start, r.nx, alloc', FALSE)
                        /\ next' = Free(r.nx, prev[start]) /\ prev' = Free(r.pv, prev[start])
                        /\ info' = Free(info, prev[start])
            /\ op' = "delete_end"
            /\ UNCHANGED <<prog, link, refs, item, loc>>

CdllTraversal ==
    /\ AtMenu("cdll")
    /\ op' = "traverse"
    /\ out' = IF start = NULL THEN OVERFLOW ELSE NoMsg  \* sic, line 27
    /\ RingAfter(start, next, alloc, FALSE)
    /\ UNCHANGED <<prog, heap, refs, item, loc>>

NextCDLL ==
    \/ \E v \in Vals : create_cdll(v)
    \/ \E v \in Vals : CdllInsertBeg(v)
    \/ \E v \in Vals : CdllInsertEnd(v)
    \/ CdllDeleteBeg
    \/ CdllDeleteEnd
    \/ CdllTraversal
    \/ Exit

SpecCDLL == InitOf("cdll") /\ [][NextCDLL]_vars

\* ================================================================== linked_insert.c and linked_delete.c (struct Node {data, next})
\* Both programs keep their list in main's head (here: start) and their
\* nodes' data in info; they build a list by hand, call one function on it,
\* print the list and return.  The functions are applied to every list of up
\* to MaxNodes nodes and to every index 1..MaxIndex.
MaxIndex == 4      \* the indexes passed to insertAtIndex / deleteAtIndex are 1..MaxIndex
Indexes == 1..MaxIndex

\* The sequences of distinct node addresses main's mallocs can return.
NodeSeqs == UNION {{ns \in [1..k -> Nodes] : \A i, j \in 1..k : ns[i] = ns[j] => i = j}
                       : k \in 0..MaxNodes}

\* main: the nodes ns are malloc'ed, given the data vs and chained in order.
BuildList(p, ns, vs) ==
    /\ prog = p /\ pc = "create"
    /\ info' = [n \in Nodes |-> IF \E i \in 1..Len(ns) : ns[i] = n
                                THEN vs[CHOOSE i \in 1..Len(ns) : ns[i] = n]
                                ELSE info[n]]
    /\ next' = [n \in Nodes |-> IF \E i \in 1..(Len(ns) - 1) : ns[i] = n
                                THEN ns[(CHOOSE i \in 1..(Len(ns) - 1) : ns[i] = n) + 1]
                                ELSE NULL]
    /\ alloc' = Range(ns)
    /\ start' = IF Len(ns) = 0 THEN NULL ELSE ns[1]
    /\ pc' = "call"
    /\ op' = "main"
    /\ out' = NoMsg
    /\ UNCHANGED <<prog, ub, link, prev, top, front, rear, item, loc>>

\* main is about to call the one function it calls.
AtCall(p) == prog = p /\ pc = "call" /\ ~ub

\* A function that dereferences NULL with the arguments v and l: the process
\* is gone before main prints the list.
Fault(choice, v, l) ==
    /\ pc' = "crashed"
    /\ op' = choice
    /\ item' = v
    /\ loc' = l
    /\ out' = NoMsg
    /\ UNCHANGED <<prog, ub, heap, refs>>

\* linkedlisttraversal(head) / linkedTraversal(head): the data listed.
linkedlisttraversal(s) == Infos(LinNodes(s, next))

\* main after the call: the list from s is printed and main returns.
AfterCall(s, nxt, al) ==
    /\ pc' \in IF LinEnd(s, nxt) = "cycle" THEN {"hung"}
               ELSE IF LinEnd(s, nxt) = "wild" THEN {"crashed"}
               ELSE IF Range(LinNodes(s, nxt)) \subseteq al THEN {"exited"}
               ELSE {"exited", "crashed"}
    /\ ub' = (ub \/ ~(Range(LinNodes(s, nxt)) \subseteq al))

\* ------------------------------------------------------------------ linked_insert.c
InsertBuild == \E ns \in NodeSeqs : \E vs \in [1..Len(ns) -> Vals] : BuildList("insert", ns, vs)

\* insertAtFirst, lines 15-19.  malloc's result is used unchecked.
insertAtFirst(v) ==
    /\ AtCall("insert")
    /\ \E ptr \in Malloc :
        IF ptr = NULL
        THEN Fault("insertAtFirst", v, 0)              \* ptr->data=data
        ELSE /\ info' = [info EXCEPT ![ptr] = v]
             /\ next' = [next EXCEPT ![ptr] = start]
             /\ start' = ptr
             /\ alloc' = alloc \cup {ptr}
             /\ op' = "insertAtFirst" /\ item' = v /\ loc' = 0 /\ out' = NoMsg
             /\ AfterCall(start', next', alloc')
             /\ UNCHANGED <<prog, link, prev, top, front, rear>>

\* insertAtIndex, lines 24-29:  p=head; i=0; while(i!=index-1){p=p->next; i++;}
\* ok is FALSE when the walk dereferences NULL, else p is where it stops.
RECURSIVE IndexWalk(_, _, _, _)
IndexWalk(p, i, index, nxt) ==
    IF i = index - 1 THEN [ok |-> TRUE, p |-> p]
    ELSE IF p = NULL THEN [ok |-> FALSE, p |-> NULL]
    ELSE IndexWalk(nxt[p], i + 1, index, nxt)

\* insertAtIndex, lines 30-31: ptr goes behind p.
InsertAfter(nxt, p, ptr) == [nxt EXCEPT ![ptr] = nxt[p], ![p] = ptr]

insertAtIndex(v, index) ==
    /\ AtCall("insert")
    /\ \E ptr \in Malloc :
        LET w == IndexWalk(start, 0, index, next)
        IN  IF ptr = NULL \/ ~w.ok \/ w.p = NULL
            THEN Fault("insertAtIndex", v, index)      \* ptr->data, p->next
            ELSE /\ info' = [info EXCEPT ![ptr] = v]
                 /\ next' = InsertAfter(next, w.p, ptr)
                 /\ alloc' = alloc \cup {ptr}
                 /\ op' = "insertAtIndex" /\ item' = v /\ loc' = index /\ out' = NoMsg
                 /\ AfterCall(start, next', alloc')
                 /\ UNCHANGED <<prog, link, prev, refs>>

\* insertAtEnd, lines 37-42: ptr goes behind the last node p of the walk.
InsertLast(nxt, p, ptr) == [nxt EXCEPT ![p] = ptr, ![ptr] = NULL]

insertAtEnd(v) ==
    /\ AtCall("insert")
    /\ \E ptr \in Malloc :
        LET w == LinNodes(start, next)                 \* while(p->next!=NULL)
        IN  IF ptr = NULL \/ start = NULL
            THEN Fault("insertAtEnd", v, 0)            \* ptr->data, p->next
            ELSE /\ info' = [info EXCEPT ![ptr] = v]
                 /\ next' = InsertLast(next, w[Len(w)], ptr)
                 /\ alloc' = alloc \cup {ptr}
                 /\ op' = "insertAtEnd" /\ item' = v /\ loc' = 0 /\ out' = NoMsg
                 /\ AfterCall(start, next', alloc')
                 /\ UNCHANGED <<prog, link, prev, refs>>

NextInsert ==
    \/ InsertBuild
    \/ \E v \in Vals : insertAtFirst(v)
    \/ \E v \in Vals, index \in Indexes : insertAtIndex(v, index)
    \/ \E v \in Vals : insertAtEnd(v)

SpecInsert == InitOf("insert") /\ [][NextInsert]_vars

\* ------------------------------------------------------------------ linked_delete.c
DeleteBuild == \E ns \in NodeSeqs : \E vs \in [1..Len(ns) -> Vals] : BuildList("delete", ns, vs)

\* The call returned with the list nxt from s after q was freed; main prints
\* the list and returns.
DeleteReturns(choice, v, l, s, nxt, q) ==
    /\ op' = choice /\ item' = v /\ loc' = l /\ out' = NoMsg
    /\ start' = s
    /\ alloc' = alloc \ {q}
    /\ AfterCall(s, nxt, alloc')
    /\ next' = Free(nxt, q)
    /\ info' = Free(info, q)
    /\ UNCHANGED <<prog, link, prev, top, front, rear>>

\* deleteAtFirst, lines 15-18.
deleteAtFirst ==
    /\ AtCall("delete")
    /\ IF start = NULL
       THEN Fault("deleteAtFirst", 0, 0)               \* head->next
       ELSE DeleteReturns("deleteAtFirst", 0, 0, next[start], next, start)

\* deleteAtIndex, lines 23-28:  i=0; while(i!=index-1){p=p->next; q=q->next;}
\* i is never advanced.  end is "done" with p and q where the walk stops,
\* "fault" when it dereferences NULL, "loop" when it never ends.
RECURSIVE DeleteIndexWalk(_, _, _, _, _, _)
DeleteIndexWalk(p, q, i, index, nxt, seen) ==
    IF i = index - 1 THEN [end |-> "done", p |-> p, q |-> q]
    ELSE IF p = NULL \/ q = NULL THEN [end |-> "fault", p |-> p, q |-> q]
    ELSE IF q \in seen THEN [end |-> "loop", p |-> p, q |-> q]
    ELSE DeleteIndexWalk(nxt[p], nxt[q], i, index, nxt, seen \cup {q})

\* deleteAtIndex, line 29, deleteAtEnd, line 40 (with to = NULL) and
\* deleteAtvalue, line 52: p's link after q is taken out.
Unlink(nxt, p, to) == [nxt EXCEPT ![p] = to]

deleteAtIndex(index) ==
    /\ AtCall("delete")
    /\ IF start = NULL
       THEN Fault("deleteAtIndex", 0, index)           \* head->next
       ELSE LET w == DeleteIndexWalk(start, next[start], 0, index, next, {})
            IN  IF w.end = "loop"
                THEN /\ pc' = "hung" /\ op' = "deleteAtIndex" /\ loc' = index
                     /\ item' = 0 /\ out' = NoMsg
                     /\ UNCHANGED <<prog, ub, heap, refs>>
                ELSE IF w.end = "fault" \/ w.q = NULL
                THEN Fault("deleteAtIndex", 0, index)  \* q->next
                ELSE DeleteReturns("deleteAtIndex", 0, index, start,
                                   Unlink(next, w.p, next[w.q]), w.q)

\* deleteAtEnd, lines 34-41: q is the last node, p the one before it.
deleteAtEnd ==
    /\ AtCall("delete")
    /\ LET w == LinNodes(start, next)                  \* while(q->next!=NULL)
       IN  IF Len(w) < 2
           THEN Fault("deleteAtEnd", 0, 0)             \* head->next, q->next
           ELSE DeleteReturns("deleteAtEnd", 0, 0, start,
                              Unlink(next, w[Len(w) - 1], NULL), w[Len(w)])

\* deleteAtvalue, lines 47-50: while(q->data!=value && q->next!=NULL); q is
\* never NULL here.  p and q where the walk stops.
RECURSIVE ValueWalk(_, _, _, _)
ValueWalk(p, q, value, nxt) ==
    IF info[q] # value /\ nxt[q] # NULL
    THEN ValueWalk(nxt[p], nxt[q], value, nxt)
    ELSE [p |-> p, q |-> q]

deleteAtvalue(value) ==
    /\ AtCall("delete")
    /\ IF start = NULL \/ next[start] = NULL
       THEN Fault("deleteAtvalue", value, 0)           \* head->next, q->data
       ELSE LET w == ValueWalk(start, next[start], value, next)
            IN  IF info[w.q] = value
                THEN DeleteReturns("deleteAtvalue", value, 0, start,
                                   Unlink(next, w.p, next[w.q]), w.q)
                ELSE /\ op' = "deleteAtvalue" /\ item' = value /\ loc' = 0
                     /\ out' = NoMsg
                     /\ AfterCall(start, next, alloc)
                     /\ UNCHANGED <<prog, heap, refs>>

NextDelete ==
    \/ DeleteBuild
    \/ deleteAtFirst
    \/ \E index \in Indexes : deleteAtIndex(index)
    \/ deleteAtEnd
    \/ \E v \in Vals : deleteAtvalue(v)

SpecDelete == InitOf("delete") /\ [][NextDelete]_vars

\* ================================================================== all programs
\* The nodes the entry references lead to over link, next and prev.
RECURSIVE Close(_)
Close(S) ==
    LET T == S \cup (({link[n] : n \in S} \cup {next[n] : n \in S}
                        \cup {prev[n] : n \in S}) \ {NULL})
    IN  IF T = S \/ ~(T \subseteq Nodes) THEN T ELSE Close(T)

\* While no undefined behaviour has happened, no handler can reach a freed
\* node: what Free leaves in a freed node is never read.
FreedUnreachable ==
    (pc = "menu" /\ ~ub) => Close({top, front, rear, start} \ {NULL}) \subseteq alloc

Next ==
    \/ NextStack
    \/ NextQueue
    \/ NextSLL
    \/ NextDLL
    \/ NextCSLL
    \/ NextCDLL
    \/ NextInsert
    \/ NextDelete

Spec == Init /\ [][Next]_vars

\* ================================================================== claims

\* C1 (stack LIFO): starting from the empty stack, a push that got memory puts
\* its item in front of what peep listed before, and a pop on a non-empty
\* stack reports the first item peep listed and leaves the rest in the same
\* order: peep lists the values pushed and not yet popped, newest first.
StackLIFO ==
    /\ (prog = "stack" => peep(top) = <<>>)
    /\ [][prog = "stack" =>
            /\ (op' = "push" /\ out' = NoMsg) =>
                    peep(top)' = <<item'>> \o peep(top)
            /\ (op' = "pop" /\ top # NULL) =>
                    /\ out' = Deleted(Head(peep(top)))
                    /\ peep(top)' = Tail(peep(top))
            /\ (op' = "pop" /\ top = NULL) => peep(top)' = <<>>]_vars

\* C1 witness: a pop reported 2 while 1 then 2 are left, top first, so it
\* followed pushes of 2, 1 and 2 in that order.
StackLIFOWitness ==
    /\ prog = "stack" /\ op = "pop" /\ out = Deleted(2)
    /\ peep(top) = <<1, 2>>

\* C2 (queue FIFO): starting from the empty queue, an enqueue that got memory
\* appends its item to what traverse listed before, and a dequeue on a
\* non-empty queue removes the first item listed and keeps the rest in order.
QueueFIFO ==
    /\ (prog = "queue" => QueueTraverse(front) = <<>>)
    /\ [][prog = "queue" =>
            /\ (op' = "enqueue" /\ out' = NoMsg) =>
                    QueueTraverse(front)' = Append(QueueTraverse(front), item')
            /\ (op' = "dequeue" /\ QueueTraverse(front) # <<>>) =>
                    QueueTraverse(front)' = Tail(QueueTraverse(front))
            /\ (op' = "dequeue" /\ QueueTraverse(front) = <<>>) =>
                    QueueTraverse(front)' = <<>>]_vars

\* C2 witness: after a dequeue the queue lists 2 then 1: the oldest item left
\* first although 1 was enqueued last.
QueueFIFOWitness ==
    /\ prog = "queue" /\ op = "dequeue" /\ out = NoMsg
    /\ QueueTraverse(front) = <<2, 1>>
    /\ item = 1

\* C3 (queue front/rear): front and rear are both NULL or both nodes; they are
\* NULL exactly when traverse lists nothing; rear is the last node of the chain
\* from front and its link is NULL; front = rear exactly when the chain has one
\* node.
QueueFrontRear ==
    prog = "queue" =>
        LET w == LinNodes(front, link)
        IN  /\ (front = NULL) <=> (rear = NULL)
            /\ (front = NULL) <=> (w = <<>>)
            /\ LinEnd(front, link) = "null"
            /\ front # NULL =>
                    /\ rear = w[Len(w)]
                    /\ link[rear] = NULL
                    /\ (front = rear) <=> (Len(w) = 1)

\* C3 witness: a dequeue took the last element (its node is still allocated,
\* nothing is listed) and left front and rear NULL.
QueueFrontRearWitness ==
    /\ prog = "queue" /\ op = "dequeue" /\ out = NoMsg
    /\ alloc # {} /\ front = NULL /\ rear = NULL

\* ------------------------------------------------------------------ doubly linked list
\* The chain from s is a well-formed doubly linked list of live nodes: it ends
\* at a NULL next, s has no prev, and each node is the prev of its next.
DllLinked(s, nxt, prv, al) ==
    LET w == LinNodes(s, nxt)
    IN  s # NULL =>
            /\ LinEnd(s, nxt) = "null"
            /\ Range(w) \subseteq al
            /\ prv[s] = NULL
            /\ \A i \in 1..(Len(w) - 1) : prv[w[i + 1]] = w[i]

DllListOps == {"create", "insert_beg", "insert_end", "insert_LOC", "delete_beg", "delete_end"}

\* C4 (doubly-linked invariant), as claimed: whenever the doubly linked list
\* program is back at its menu after create_dll and any sequence of insert_beg,
\* insert_end, insert_LOC, delete_beg and delete_end, the nodes reachable from
\* start are nodes of the list (not freed), each is the prev of its next,
\* start has no prev and the last node has no next.
DoublyLinkedInvariant ==
    (prog = "dll" /\ pc = "menu" /\ op \in DllListOps) =>
        DllLinked(start, next, prev, alloc)

\* ------------------------------------------------------------------ circular singly linked list
\* Following lnk from s comes back to s over live nodes, no link being NULL.
CsllRing(s, lnk, al) ==
    /\ s \in Nodes
    /\ RingEnd(s, lnk) = "ring"
    /\ Range(RingNodes(s, lnk)) \subseteq al

\* C5 (circular invariant), as claimed: whenever the circular singly linked
\* list program is at its menu with a non-empty list, following link from
\* start returns to start, and traverse terminates without a fault.
CircularInvariant ==
    prog = "csll" =>
        /\ (pc = "menu" /\ start # NULL) => CsllRing(start, link, alloc)
        /\ ~(op = "traverse" /\ pc \in {"crashed", "hung"})

\* ------------------------------------------------------------------ circular doubly linked list
\* The ring from s over next holds exactly the live nodes, every node is the
\* prev of its next, and s's prev is the last node of the traversal.
CdllRing(s, nxt, prv, al) ==
    /\ s \in Nodes
    /\ \E w \in {RingNodes(s, nxt)} :
           /\ nxt[w[Len(w)]] = s
           /\ Range(w) = al
           /\ \A n \in Range(w) : nxt[n] \in Nodes /\ prv[nxt[n]] = n
           /\ prv[s] = w[Len(w)]

CdllNodes == RingNodes(start, next)
CdllOk == pc = "menu" /\ CdllRing(start, next, prev, alloc)

\* s without its last element.
Front(s) == SubSeq(s, 1, Len(s) - 1)

\* C6 (circular doubly linked list): create_cdll builds a well-formed one-node
\* ring; from a well-formed ring, insert_beg yields the well-formed ring with
\* the new node as start in front of the old nodes, insert_end the well-formed
\* ring with the new node as start.prev behind them and start unmoved, and
\* delete_beg / delete_end on a ring of at least two nodes the well-formed ring
\* without the first / last node.  A well-formed ring returns to start in as
\* many steps as there are live nodes.
CdllWellFormed ==
    [][prog = "cdll" =>
        /\ (op' = "create" /\ out' = NoMsg) =>
                CdllOk' /\ Len(CdllNodes') = 1
        /\ (op' = "insert_beg" /\ out' = NoMsg /\ CdllOk) =>
                /\ CdllOk'
                /\ start' \notin alloc /\ info'[start'] = item'
                /\ CdllNodes' = <<start'>> \o CdllNodes
        /\ (op' = "insert_end" /\ out' = NoMsg /\ CdllOk) =>
                /\ CdllOk'
                /\ start' = start
                /\ prev'[start'] \notin alloc /\ info'[prev'[start']] = item'
                /\ CdllNodes' = Append(CdllNodes, prev'[start'])
        /\ (op' = "delete_beg" /\ CdllOk /\ Len(CdllNodes) >= 2) =>
                /\ CdllOk'
                /\ out' = Deleted(info[start])
                /\ CdllNodes' = Tail(CdllNodes)
        /\ (op' = "delete_end" /\ CdllOk /\ Len(CdllNodes) >= 2) =>
                /\ CdllOk'
                /\ out' = Deleted(info[prev[start]])
                /\ CdllNodes' = Front(CdllNodes)
        /\ ((op' = "traverse" \/ out' = OVERFLOW) /\ CdllOk) =>
                CdllOk' /\ CdllNodes' = CdllNodes
      ]_vars

\* C6 witness: a delete_end on a three-node ring left a well-formed ring of two
\* nodes listing 1 then 2, the node deleted having been put in by insert_end.
CdllWellFormedWitness ==
    /\ prog = "cdll" /\ op = "delete_end" /\ out = Deleted(2)
    /\ CdllOk /\ ~ub
    /\ CdllTraverse(start) = <<1, 2>>
    /\ Cardinality(alloc) = 2

\* ------------------------------------------------------------------ last-element delete
\* The container holds exactly one element.
Singleton ==
    CASE prog = "stack" -> Len(LinNodes(top, link)) = 1
      [] prog = "queue" -> Len(LinNodes(front, link)) = 1
      [] prog = "sll"   -> Len(LinNodes(start, link)) = 1
      [] prog = "dll"   -> Len(LinNodes(start, next)) = 1
      [] prog = "csll"  -> start # NULL /\ Len(RingNodes(start, link)) = 1
      [] prog = "cdll"  -> start # NULL /\ Len(RingNodes(start, next)) = 1

\* The container's entry references are absent.
Empty ==
    CASE prog = "stack" -> top = NULL
      [] prog = "queue" -> front = NULL /\ rear = NULL
      [] OTHER          -> start = NULL

DeleteOps == {"delete_beg", "delete_end", "pop", "dequeue"}

\* C7 (last-element delete), as claimed: in every program a delete operation
\* applied to a container of exactly one element completes and leaves the
\* entry reference absent.
LastElementDelete ==
    [][(pc = "menu" /\ ~ub /\ Singleton /\ op' \in DeleteOps) =>
            (pc' = "menu" /\ Empty')]_vars

\* ------------------------------------------------------------------ circular singly linked list, front operations
CsllNodes == RingNodes(start, link)

\* C8 (circular singly linked insertFront), as claimed: insert_beg on a
\* non-empty ring returns with a ring in which the new node is start, the
\* former nodes follow in their order (so the former last node links to the
\* new start) and the ring is one longer.
CsllInsertFront ==
    [][(prog = "csll" /\ pc = "menu" /\ CsllRing(start, link, alloc)
            /\ op' = "insert_beg" /\ out' = NoMsg) =>
            /\ pc' = "menu"
            /\ CsllRing(start', link', alloc')
            /\ start' \notin alloc /\ info'[start'] = item'
            /\ CsllNodes' = <<start'>> \o CsllNodes]_vars

\* C9 (circular singly linked deleteFront), as claimed: delete_beg on a
\* non-empty list returns; the old head is gone, start is the former second
\* element (NULL if there was none) and the last node links to the new start.
CsllDeleteFront ==
    [][(prog = "csll" /\ pc = "menu" /\ start # NULL /\ op' = "delete_beg") =>
            /\ pc' = "menu"
            /\ IF Len(CsllNodes) = 1
               THEN start' = NULL
               ELSE /\ start' = CsllNodes[2]
                    /\ CsllRing(start', link', alloc')
                    /\ CsllNodes' = Tail(CsllNodes)]_vars

\* ------------------------------------------------------------------ doubly linked positional insert
DllNodes == LinNodes(start, next)

\* s with x put in as its i-th element.
InsertAt(s, i, x) == SubSeq(s, 1, i - 1) \o <<x>> \o SubSeq(s, i, Len(s))

\* C10 (doubly linked positional insert), as claimed: insert_LOC(item, loc)
\* on a non-empty list with 1 <= loc <= size makes the new node the loc-th
\* node of the forward traversal of a well-formed list, the former nodes
\* keeping their order around it.
DllInsertAtLoc ==
    [][(prog = "dll" /\ pc = "menu" /\ start # NULL
            /\ DllLinked(start, next, prev, alloc)
            /\ op' = "insert_LOC" /\ out' = NoMsg /\ loc' <= Len(DllNodes)) =>
            /\ pc' = "menu"
            /\ DllLinked(start', next', prev', alloc')
            /\ \E new \in alloc' \ alloc :
                /\ info'[new] = item'
                /\ DllNodes' = InsertAt(DllNodes, loc', new)]_vars

\* ------------------------------------------------------------------ doubly linked LocationNotFound
\* C11 (doubly linked LocationNotFound), as claimed: insert_LOC(item, loc) on
\* a well-formed non-empty list whose walk runs off the end before position
\* loc (loc is more than one past the size) reports "location not found",
\* keeps start and keeps the next and prev of every node of the list.
DllLocationNotFound ==
    [][(prog = "dll" /\ pc = "menu" /\ start # NULL
            /\ DllLinked(start, next, prev, alloc)
            /\ op' = "insert_LOC" /\ out' # OVERFLOW /\ loc' > Len(DllNodes) + 1) =>
            /\ out' = Msg("location not found", 0)
            /\ start' = start
            /\ \A n \in Range(DllNodes) : next'[n] = next[n] /\ prev'[n] = prev[n]]_vars

\* ------------------------------------------------------------------ linked_insert.c / linked_delete.c positional operations
\* The nodes of main's list, head first.
HeadNodes == LinNodes(start, next)

\* C12 (singly linked insertAt, 1-based), as claimed: insertAtIndex(head,
\* data, index) with 1 <= index <= size and a node to allocate returns, the
\* list then holding one new node with data as its index-th node (counting
\* from 1) and the former nodes, data unchanged, in their order around it.
InsertAtIndexOneBased ==
    [][(prog = "insert" /\ pc = "call" /\ op' = "insertAtIndex"
            /\ alloc # Nodes /\ loc' \in 1..Len(HeadNodes)) =>
            /\ pc' = "exited"
            /\ \E new \in alloc' \ alloc :
                /\ info'[new] = item'
                /\ HeadNodes' = InsertAt(HeadNodes, loc', new)
            /\ \A n \in alloc : info'[n] = info[n]]_vars

\* s without its i-th element.
RemoveAt(s, i) == SubSeq(s, 1, i - 1) \o SubSeq(s, i + 1, Len(s))

\* C13 (singly linked deleteAt, 1-based), as claimed: deleteAtIndex(head,
\* index) with 1 <= index <= size returns, the list then being the former
\* nodes without the index-th (counting from 1), which is freed, the others
\* in their order with their data.
DeleteAtIndexOneBased ==
    [][(prog = "delete" /\ pc = "call" /\ op' = "deleteAtIndex"
            /\ loc' \in 1..Len(HeadNodes)) =>
            /\ pc' = "exited"
            /\ HeadNodes' = RemoveAt(HeadNodes, loc')
            /\ alloc' = alloc \ {HeadNodes[loc']}
            /\ \A n \in alloc' : info'[n] = info[n]]_vars

\* C14 (singly linked positional range check), as claimed: insertAtIndex and
\* deleteAtIndex called with an index greater than the size of the list
\* return without dereferencing NULL and leave the nodes of the list, their
\* order and their data as they were.
IndexOutOfRange ==
    [][(prog \in {"insert", "delete"} /\ pc = "call"
            /\ op' \in {"insertAtIndex", "deleteAtIndex"}
            /\ loc' > Len(HeadNodes)) =>
            /\ pc' = "exited"
            /\ HeadNodes' = HeadNodes
            /\ linkedlisttraversal(start)' = linkedlisttraversal(start)]_vars

\* The places of the list that hold the value v.
PlacesOf(v) == {i \in 1..Len(HeadNodes) : info[HeadNodes[i]] = v}

\* The least element of the non-empty set S of numbers.
Least(S) == CHOOSE i \in S : \A j \in S : i <= j

\* C15 (singly linked deleteByValue), as claimed: deleteAtvalue(head, value)
\* on a non-empty list returns; if some node holds value the list is then the
\* former nodes without the first node holding value (the head included),
\* which is freed, and otherwise the list is as it was.
DeleteByValue ==
    [][(prog = "delete" /\ pc = "call" /\ start # NULL /\ op' = "deleteAtvalue") =>
            /\ pc' = "exited"
            /\ IF PlacesOf(item') # {}
               THEN /\ HeadNodes' = RemoveAt(HeadNodes, Least(PlacesOf(item')))
                    /\ alloc' = alloc \ {HeadNodes[Least(PlacesOf(item'))]}
               ELSE /\ HeadNodes' = HeadNodes
                    /\ alloc' = alloc
            /\ \A n \in alloc' : info'[n] = info[n]]_vars

\* C16 (singly linked Underflow), as claimed: delete_beg and delete_end of
\* menu_linked.c and deleteAtFirst, deleteAtIndex, deleteAtEnd and
\* deleteAtvalue of linked_delete.c on an empty list report UNDERFLOW,
\* dereference no NULL reference and leave the list empty and the heap as it was.
SllUnderflow ==
    [][(/\ start = NULL
        /\ \/ prog = "sll" /\ pc = "menu" /\ op' \in {"delete_beg", "delete_end"}
           \/ prog = "delete" /\ pc = "call"
                /\ op' \in {"deleteAtFirst", "deleteAtIndex", "deleteAtEnd", "deleteAtvalue"}) =>
            /\ out' = UNDERFLOW
            /\ pc' \in {"menu", "exited"}
            /\ start' = NULL
            /\ UNCHANGED heap]_vars

\* ------------------------------------------------------------------ stack and queue underflow
\* C17 (stack and queue Underflow): pop on the empty stack and dequeue on the
\* empty queue print UNDERFLOW, leave top (front and rear) NULL and the heap
\* as it was, and the program is back at its menu; a push (enqueue) chosen
\* next, with a node to allocate, makes its item the only element.
StackQueueUnderflow ==
    [][/\ (prog = "stack" /\ top = NULL /\ op' = "pop") =>
            /\ out' = UNDERFLOW
            /\ top' = NULL
            /\ pc' = "menu" /\ ~ub'
            /\ UNCHANGED heap
       /\ (prog = "queue" /\ front = NULL /\ rear = NULL /\ op' = "dequeue") =>
            /\ out' = UNDERFLOW
            /\ front' = NULL /\ rear' = NULL
            /\ pc' = "menu" /\ ~ub'
            /\ UNCHANGED heap
       /\ (prog = "stack" /\ op = "pop" /\ out = UNDERFLOW
                /\ op' = "push" /\ alloc # Nodes) =>
            /\ out' = NoMsg /\ pc' = "menu"
            /\ peep(top)' = <<item'>>
       /\ (prog = "queue" /\ op = "dequeue" /\ out = UNDERFLOW
                /\ op' = "enqueue" /\ alloc # Nodes) =>
            /\ out' = NoMsg /\ pc' = "menu"
            /\ QueueTraverse(front)' = <<item'>>
            /\ front' = rear'
      ]_vars

\* C17 witness: dequeue reported UNDERFLOW on a queue that had held an element
\* before and is back at its menu.
StackQueueUnderflowWitness ==
    /\ prog = "queue" /\ op = "dequeue" /\ out = UNDERFLOW
    /\ front = NULL /\ rear = NULL /\ alloc # {}
    /\ pc = "menu" /\ ~ub

\* ------------------------------------------------------------------ singly linked sort, reversal and search
\* The nodes of the singly linked list, first node first.
SllNodes == LinNodes(start, link)

\* How many places of the sequence s hold v.
Count(s, v) == Cardinality({i \in 1..Len(s) : s[i] = v})

\* C18 (singly linked sort), as claimed: in every state the menu of
\* menu_linked.c can be in, the empty list included, choosing the sort comes
\* back to the menu with the same nodes linked in the same order from the
\* same start, their values in non-decreasing order and each value held as
\* often as before.
SortAscending ==
    [][(prog = "sll" /\ pc = "menu" /\ op' = "sorting") =>
            /\ pc' = "menu"
            /\ start' = start /\ SllNodes' = SllNodes
            /\ \A i \in 1..(Len(SllNodes') - 1) :
                    info'[SllNodes'[i]] <= info'[SllNodes'[i + 1]]
            /\ \A v \in Vals :
                    Count(traversal(start)', v) = Count(traversal(start), v)]_vars

\* The sequence s in reverse order.
Rev(s) == [i \in 1..Len(s) |-> s[Len(s) + 1 - i]]

\* C19 (reversal is an involution): for a non-empty list, reversal yields the
\* same nodes in reverse order, and reversal of that list yields the first
\* list again with its start; choosing Reverse at the menu leaves the list
\* reversed, the nodes keeping their values.
ReversalInvolution ==
    [][(prog = "sll" /\ pc = "menu" /\ start # NULL) =>
            /\ \E r1 \in {reversal(start, link)} :
                \E r2 \in {reversal(r1.start, r1.link)} :
                    /\ LinNodes(r1.start, r1.link) = Rev(SllNodes)
                    /\ r2.start = start
                    /\ LinNodes(r2.start, r2.link) = SllNodes
            /\ op' = "reversal" =>
                    /\ pc' = "menu" /\ ~ub'
                    /\ SllNodes' = Rev(SllNodes)
                    /\ traversal(start)' = Rev(traversal(start))
                    /\ info' = info /\ alloc' = alloc]_vars

\* C19 witness: Reverse left the list 2, 1, 1, so it was 1, 1, 2 before.
ReversalInvolutionWitness ==
    /\ prog = "sll" /\ op = "reversal" /\ pc = "menu" /\ ~ub
    /\ traversal(start) = <<2, 1, 1>>

\* C20 (singly linked search): searching_sll(start, item) reports the place,
\* counting from 1, of the first node holding item, reports an unsuccessful
\* search when no node holds it (also on the empty list), comes back to the
\* menu and changes neither the list nor the heap.
SearchFirstPlace ==
    [][(prog = "sll" /\ pc = "menu" /\ op' = "searching") =>
            /\ pc' = "menu" /\ ~ub'
            /\ UNCHANGED <<heap, refs>>
            /\ \E P \in {{i \in 1..Len(SllNodes) : info[SllNodes[i]] = item'}} :
                    out' = IF P = {} THEN Unsuccessful ELSE Found(Least(P))]_vars

\* C20 witness: the search for 2 in the list 1, 2, 2 reported place 2.
SearchFirstPlaceWitness ==
    /\ prog = "sll" /\ op = "searching" /\ item = 2 /\ out = Found(2)
    /\ traversal(start) = <<1, 2, 2>>


(***************************************************************************)
(* C21  Insert-only ordering in the linear lists.                          *)
(***************************************************************************)
\* The three programs with a linear list that has front and end inserts.
NextLinear ==
    \/ prog = "sll" /\ NextSLL
    \/ prog = "dll" /\ NextDLL
    \/ prog = "insert" /\ NextInsert

SpecLinear ==
    /\ InitOf("sll") \/ InitOf("dll") \/ InitOf("insert")
    /\ [][NextLinear]_vars

\* The listing u is the listing t with v put first, resp. last; either way
\* it is one longer.
FrontInserted(t, u, v) == u = <<v>> \o t /\ Len(u) = Len(t) + 1

EndInserted(t, u, v) == u = Append(t, v) /\ Len(u) = Len(t) + 1

\* C21: in menu_linked.c, menu_DLL.c and linked_insert.c, an insert that
\* obtained its node leaves the program running and changes the traversal
\* of the list in exactly one way: create on an empty list yields the seed
\* alone, a front insert puts its value before the values that were there,
\* an end insert puts its value behind them; the length therefore grows by
\* exactly one per insert.  linked_insert.c is taken on its seeded list.
InsertOnlyOrdering ==
    [][ /\ (prog = "sll" /\ pc = "menu" /\ out' = NoMsg
                /\ op' \in {"create", "insert_beg", "insert_end"}) =>
            \E t \in {traversal(start)}, u \in {traversal(start)'} :
                /\ pc' = "menu"
                /\ (op' = "create" /\ start = NULL) => u = <<item'>>
                /\ op' = "insert_beg" => FrontInserted(t, u, item')
                /\ op' = "insert_end" => EndInserted(t, u, item')
        /\ (prog = "dll" /\ pc = "menu" /\ out' = NoMsg
                /\ op' \in {"create", "insert_beg", "insert_end"}) =>
            \E t \in {foreward_traversal(start)}, u \in {foreward_traversal(start)'} :
                /\ pc' = "menu"
                /\ (op' = "create" /\ start = NULL) => u = <<item'>>
                /\ op' = "insert_beg" => FrontInserted(t, u, item')
                /\ op' = "insert_end" => EndInserted(t, u, item')
        /\ (prog = "insert" /\ pc = "call" /\ start # NULL /\ alloc # Nodes
                /\ op' \in {"insertAtFirst", "insertAtEnd"}) =>
            \E t \in {linkedlisttraversal(start)}, u \in {linkedlisttraversal(start)'} :
                /\ pc' = "exited"
                /\ op' = "insertAtFirst" => FrontInserted(t, u, item')
                /\ op' = "insertAtEnd" => EndInserted(t, u, item')
      ]_vars

\* An end insert of menu_DLL.c has just put 2 behind two earlier values.
InsertOnlyOrderingWitness ==
    /\ prog = "dll" /\ pc = "menu" /\ ~ub
    /\ op = "insert_end" /\ out = NoMsg /\ item = 2
    /\ foreward_traversal(start) = <<2, 1, 2>>

(***************************************************************************)
(* C22  Deallocation paired with delete.                                   *)
(***************************************************************************)
\* The number of elements the container holds, counted from its entry
\* reference.
Size ==
    CASE prog = "stack" -> Len(LinNodes(top, link))
      [] prog = "queue" -> Len(LinNodes(front, link))
      [] prog = "sll"   -> Len(LinNodes(start, link))
      [] prog = "csll"  -> IF start = NULL THEN 0 ELSE Len(RingNodes(start, link))
      [] prog = "cdll"  -> IF start = NULL THEN 0 ELSE Len(RingNodes(start, next))
      [] OTHER          -> Len(LinNodes(start, next))

\* C22 (deallocation paired with delete), as claimed: in every reachable
\* state in which the program is running normally or has returned, the
\* number of nodes allocated and not freed equals the number of elements
\* of the container.
DeallocationPaired ==
    (~ub /\ pc \in {"menu", "call", "exited"}) => Cardinality(alloc) = Size

(***************************************************************************)
(* C23  Traversal is read-only.                                            *)
(***************************************************************************)
\* C23 (traversal is read-only), as claimed: in menu_DLL.c the menu option
\* Foreward_Traversal returns to the menu with start and every node's info,
\* prev and next unchanged and with defined behaviour, and on an empty list
\* (start absent) it reports "list is empty".
DllTraversalReadOnly ==
    [][(prog = "dll" /\ pc = "menu" /\ ~ub /\ op' = "traversal") =>
            /\ pc' = "menu" /\ ~ub'
            /\ start' = start
            /\ UNCHANGED <<info, prev, next, alloc>>
            /\ start = NULL => out'.msg = "list is empty"
       ]_vars
====
